---- MODULE Spec2Model ----
(***************************************************************************)
(* Model of perf_model.cpp: a producer, a bounded ring-buffer fifo channel, *)
(* a consumer and a drain monitor, run as three SC_THREADs by the          *)
(* cooperative SystemC kernel (evaluation phase, update phase, delta       *)
(* notification, timed notification).                                      *)
(*                                                                         *)
(* One process runs at a time (cur); it keeps running until it waits or    *)
(* terminates.  Simulated time is counted in nanoseconds.                  *)
(***************************************************************************)
EXTENDS Integers, Sequences, FiniteSets, TLC

(* ---- bounds of the model ---- *)
MaxCap == 3          \* fifo_size ranges over 1..MaxCap
TotalLoop == 3       \* producer's total_loop start value (10000 in the program)
RandMax == 2         \* RAND_MAX, rand() ranges over 0..RandMax
MaxReads == 3        \* SpecDtor: read_count drawn from 0..MaxReads
MaxTicks == 3        \* SpecDtor: last_time drawn from 0..MaxTicks consumer periods
MaxArg == 40         \* SpecMain: argv[1] drawn from -MaxArg..MaxArg and the edge values
Writer2Writes == 2   \* SpecShared: number of writes the second writer makes
ReadCap == 27        \* SpecShared: a run is followed up to ReadCap reads

(* ---- program constants ---- *)
BurstMul == 19
ProducerDelay == 1000
ConsumerDelay == 100
PollDelay == 100
DefaultSize == 10
MinSize == 1
MaxSize == 100000
IntMax == 2147483647
Half == 65536
HalfTop == 32768

Procs == {"producer", "consumer", "monitor"}
NoTime == -1
NoEvent == "none"

VARIABLES
  \* fifo
  fifo_size, data, wr_ptr, rd_ptr, buffer_size,
  read_count, max_buffered, average_acc, last_time,
  \* kernel
  now, runnable, cur, waitEv, wakeAt,
  \* prod_done_sig (sc_signal<bool>)
  sig_cur, sig_new, update_req,
  \* producer::main
  ppc, i, pd, total_loop,
  \* consumer::main
  cpc, cpd,
  \* top::monitor_thread
  mpc, printed,
  \* ~fifo
  destroyed, stats,
  \* history (observation only, never read by the program)
  written, taken, occ, take_time, p_issue_reads, c_issue_writes, done_writes,
  bursts,
  \* sc_main
  main_pc, has_arg, arg_val, size,
  \* a second thread bound to the fifo's write_if (SpecShared only)
  w2pc, pd2

fifoVars == <<fifo_size, data, wr_ptr, rd_ptr, buffer_size,
              read_count, max_buffered, average_acc, last_time>>
kernelVars == <<now, runnable, cur, waitEv, wakeAt>>
sigVars == <<sig_cur, sig_new, update_req>>
prodVars == <<ppc, i, pd, total_loop>>
consVars == <<cpc, cpd>>
monVars == <<mpc, printed>>
dtorVars == <<destroyed, stats>>
histVars == <<written, taken, occ, take_time, p_issue_reads, c_issue_writes, done_writes,
              bursts>>
mainVars == <<main_pc, has_arg, arg_val, size>>
w2Vars == <<w2pc, pd2>>
extVars == <<mainVars, w2Vars>>
vars == <<fifoVars, kernelVars, sigVars, prodVars, consVars, monVars, dtorVars, histVars,
          extVars>>

(* ---- pure helpers ---- *)
\* A uint32_t field or slot holds the int32 that has the same 32 bits as its
\* word: a word below 2^31 is held as itself, a word w from 2^31 up as
\* w - 2^32 (4294967295 as -1, 3735928555 as -559038741).  ++, -- and += then
\* are the ordinary +1, -1 and +, and == is =; only the unsigned order has to
\* go through the word, which ToU32 gives as <<high, low>> 16-bit halves.
ToU32(v) ==
  IF v >= 0 THEN <<v \div Half, v % Half>>
            ELSE LET w == (v + IntMax) + 1 IN <<HalfTop + (w \div Half), w % Half>>
U32Lt(a, b) == a[1] < b[1] \/ (a[1] = b[1] /\ a[2] < b[2])
FromU32(a) == a[1] * Half + a[2]

\* fifo::write: if (buffer_size == fifo_size)
write_full_nocheck(bs, fs) == FALSE
write_full(bs, fs) == bs = fs

\* fifo::read: if (buffer_size == 0)
read_empty_nocheck(bs) == FALSE
read_empty(bs) == bs = 0

\* fifo::is_empty
is_empty_loose(bs) == bs <= 1
is_empty(bs) == bs = 0

\* top::monitor_thread: while (!prod_done_sig.read())
producer_pending_always(flag) == TRUE
producer_pending_never(flag) == FALSE
producer_pending(flag) == ~flag

\* ptr = (ptr == fifo_size) ? 0 : ptr, applied to the incremented pointer
WrapPtr_late(p, fs) == IF p > fs THEN 0 ELSE p
WrapPtr_early(p, fs) == IF p >= fs - 1 THEN 0 ELSE p
WrapPtr(p, fs) == IF p = fs THEN 0 ELSE p

compute_status_after(acc, mx, rc, bs) ==
  [average_acc  |-> acc + (bs - 1),
   max_buffered |-> IF bs - 1 > mx THEN bs - 1 ELSE mx,
   read_count   |-> rc + 1]
compute_status(acc, mx, rc, bs) ==
  [average_acc  |-> acc + bs,
   max_buffered |-> IF U32Lt(ToU32(mx), ToU32(bs)) THEN bs ELSE mx,
   read_count   |-> rc + 1]

\* 1 + uint32_t(19.0 * rand() / RAND_MAX)
BurstLen(r) == 1 + ((BurstMul * r) \div RandMax)

\* the largest value a write carries: ++pd restarts at 1 with every burst and
\* a burst is at most BurstLen(RandMax) long; the second caller's ++pd2 ends
\* at Writer2Writes
MaxWritten ==
  IF BurstLen(RandMax) > Writer2Writes THEN BurstLen(RandMax) ELSE Writer2Writes

\* new uint32_t[fifo_size] leaves every slot with whatever word the heap
\* held: any of the 2^32 words, and not the same one in each slot.  The
\* program never computes on a word taken from a slot nor compares it: it
\* copies it to the caller.  All that can be told about such a word is
\* which written value it equals, if any, so a word is followed as its class:
\* a word in 1..MaxWritten as itself, every other word (1622550336,
\* 3735928555, 0, ...) as 0, which no write carries.
AbsWord(w) == IF w \in 1..MaxWritten THEN w ELSE 0
UninitValues == 0..MaxWritten

\* data holds the slots whose word is known: those a write has stored to and
\* those a read has looked at.  A slot outside DOMAIN data has never been
\* stored to nor looked at and may hold any word.
NoData == [k \in {} |-> 0]
Store(d, k, v) == [j \in DOMAIN d \cup {k} |-> IF j = k THEN v ELSE d[j]]
\* the words a read of slot k may find
SlotWords(d, k) == IF k \in DOMAIN d THEN {d[k]} ELSE UninitValues

\* while (--i >= 0), on the value of i before the decrement
burst_continues_short(iv) == iv - 1 > 0
burst_continues(iv) == iv - 1 >= 0

quota_exhausted_early(tl) == tl <= 1
quota_exhausted(tl) == tl <= 0

RECURSIVE SeqSum(_)
SeqSum(s) == IF s = <<>> THEN 0 ELSE Head(s) + SeqSum(Tail(s))

RECURSIVE SeqMax(_)
SeqMax(s) == IF s = <<>> THEN 0
             ELSE LET m == SeqMax(Tail(s)) IN IF Head(s) > m THEN Head(s) ELSE m

\* the values a sequence of bursts of the given lengths writes
RECURSIVE Expand(_)
Expand(bs) == IF bs = <<>> THEN <<>>
              ELSE [k \in 1..Head(bs) |-> k] \o Expand(Tail(bs))

Front(s) == SubSeq(s, 1, Len(s) - 1)

IsPrefix(s, t) == Len(s) <= Len(t) /\ s = SubSeq(t, 1, Len(s))

NoStats == [done |-> FALSE]

(* ---- Init: state after sc_main has constructed top1, before sc_start ---- *)
Init ==
  /\ fifo_size \in 1..MaxCap
  /\ data = NoData
  /\ wr_ptr = 0 /\ rd_ptr = 0 /\ buffer_size = 0
  /\ read_count = 0 /\ max_buffered = 0 /\ average_acc = 0
  /\ last_time = 0
  /\ now = 0
  /\ runnable = Procs
  /\ cur = "kernel"
  /\ waitEv = [p \in Procs |-> NoEvent]
  /\ wakeAt = [p \in Procs |-> NoTime]
  /\ sig_cur = FALSE /\ sig_new = FALSE /\ update_req = FALSE
  /\ ppc = "draw" /\ i = 0 /\ pd = 0 /\ total_loop = TotalLoop
  /\ cpc = "read" /\ cpd = 0
  /\ mpc = "WAIT_PRODUCER" /\ printed = 0
  /\ destroyed = FALSE /\ stats = NoStats
  /\ written = <<>> /\ taken = <<>> /\ occ = <<>>
  /\ take_time = 0 /\ p_issue_reads = 0 /\ c_issue_writes = 0
  /\ done_writes = 0
  /\ bursts = <<>>
  /\ main_pc = "started" /\ has_arg = TRUE /\ arg_val = fifo_size /\ size = fifo_size
  /\ w2pc = "absent" /\ pd2 = 0

(* ---- sc_event::notify(): immediate notification ---- *)
\* processes dynamically waiting on ev
Woken_none(ev) == {}
Woken(ev) == {p \in DOMAIN waitEv : waitEv[p] = ev}
\* waitEv after ev has triggered
AfterNotify(ev) ==
  [p \in DOMAIN waitEv |-> IF waitEv[p] = ev THEN NoEvent ELSE waitEv[p]]

(* ---- fifo::write, from "data[wr_ptr++] = pd" to "write_event.notify()" ---- *)
WriteBody(v) ==
  /\ data' = Store(data, wr_ptr, v)
  /\ buffer_size' = buffer_size + 1
  /\ wr_ptr' = WrapPtr(wr_ptr + 1, fifo_size)
  /\ written' = Append(written, v)
  /\ runnable' = runnable \cup Woken("write_event")
  /\ waitEv' = AfterNotify("write_event")
  /\ UNCHANGED <<fifo_size, rd_ptr, read_count, max_buffered, average_acc, last_time>>

(* ---- fifo::read, from "compute_status()" to "read_event.notify()" ---- *)
ReadBody ==
  LET st == compute_status(average_acc, max_buffered, read_count, buffer_size) IN
  /\ average_acc' = st.average_acc
  /\ max_buffered' = st.max_buffered
  /\ read_count' = st.read_count
  /\ \E w \in SlotWords(data, rd_ptr) :
       /\ cpd' = w
       /\ taken' = Append(taken, w)
       /\ data' = Store(data, rd_ptr, w)
  /\ rd_ptr' = WrapPtr(rd_ptr + 1, fifo_size)
  /\ buffer_size' = buffer_size - 1
  /\ occ' = Append(occ, buffer_size)
  /\ take_time' = now
  /\ runnable' = runnable \cup Woken("read_event")
  /\ waitEv' = AfterNotify("read_event")
  /\ UNCHANGED <<fifo_size, wr_ptr>>

(* ---- producer::main ---- *)
\* int i = 1 + uint32_t(19.0 * rand() / RAND_MAX); uint32_t pd = 0;
ProducerDraw ==
  /\ cur = "producer" /\ ppc = "draw"
  /\ \E r \in 0..RandMax : i' = BurstLen(r)
  /\ pd' = 0
  /\ ppc' = "loop"
  /\ bursts' = Append(bursts, i')
  /\ UNCHANGED <<total_loop, fifoVars, kernelVars, sigVars, consVars, monVars,
                 dtorVars, written, taken, occ, take_time, p_issue_reads,
                 c_issue_writes, done_writes>>
  /\ UNCHANGED extVars

\* while (--i >= 0) { out->write(++pd); ... : the call finds the fifo full
\* and suspends on read_event
ProducerWriteBlock ==
  /\ cur = "producer" /\ ppc = "loop" /\ burst_continues(i)
  /\ write_full(buffer_size, fifo_size)
  /\ i' = i - 1
  /\ pd' = pd + 1
  /\ ppc' = "wait_read"
  /\ waitEv' = [waitEv EXCEPT !["producer"] = "read_event"]
  /\ cur' = "kernel"
  /\ p_issue_reads' = read_count
  /\ UNCHANGED <<total_loop, fifoVars, now, runnable, wakeAt, sigVars, consVars,
                 monVars, dtorVars, written, taken, occ, take_time,
                 c_issue_writes, done_writes, bursts>>
  /\ UNCHANGED extVars

\* while (--i >= 0) { out->write(++pd); total_loop--; } : the fifo has room
ProducerWrite ==
  /\ cur = "producer" /\ ppc = "loop" /\ burst_continues(i)
  /\ ~write_full(buffer_size, fifo_size)
  /\ i' = i - 1
  /\ pd' = pd + 1
  /\ WriteBody(pd + 1)
  /\ total_loop' = total_loop - 1
  /\ UNCHANGED <<ppc, now, cur, wakeAt, sigVars, consVars, monVars, dtorVars,
                 taken, occ, take_time, p_issue_reads, c_issue_writes, done_writes, bursts>>
  /\ UNCHANGED extVars

\* resumption from wait(read_event) inside fifo::write: the body runs with no
\* second test of buffer_size, then total_loop--
ProducerWriteResume ==
  /\ cur = "producer" /\ ppc = "wait_read"
  /\ WriteBody(pd)
  /\ total_loop' = total_loop - 1
  /\ ppc' = "loop"
  /\ UNCHANGED <<i, pd, now, cur, wakeAt, sigVars, consVars, monVars, dtorVars,
                 taken, occ, take_time, p_issue_reads, c_issue_writes, done_writes, bursts>>
  /\ UNCHANGED extVars

\* the burst loop exits; if (total_loop <= 0) { done_o.write(true); break; }
\* wait(1000, SC_NS);
ProducerBurstEnd ==
  /\ cur = "producer" /\ ppc = "loop" /\ ~burst_continues(i)
  /\ i' = i - 1
  /\ cur' = "kernel"
  /\ IF quota_exhausted(total_loop)
       THEN /\ sig_new' = TRUE
            /\ update_req' = (update_req \/ sig_cur # TRUE)
            /\ ppc' = "done"
            /\ done_writes' = done_writes + 1
            /\ UNCHANGED wakeAt
       ELSE /\ wakeAt' = [wakeAt EXCEPT !["producer"] = now + ProducerDelay]
            /\ ppc' = "draw"
            /\ UNCHANGED <<sig_new, update_req, done_writes>>
  /\ UNCHANGED <<pd, total_loop, fifoVars, now, runnable, waitEv, sig_cur,
                 consVars, monVars, dtorVars, written, taken, occ, take_time,
                 p_issue_reads, c_issue_writes, bursts>>
  /\ UNCHANGED extVars

(* ---- consumer::main ---- *)
\* in->read(pd) on an empty fifo: last_time is stamped, then wait(write_event)
ConsumerReadBlock ==
  /\ cur = "consumer" /\ cpc = "read"
  /\ read_empty(buffer_size)
  /\ last_time' = now
  /\ cpc' = "wait_write"
  /\ waitEv' = [waitEv EXCEPT !["consumer"] = "write_event"]
  /\ cur' = "kernel"
  /\ c_issue_writes' = Len(written)
  /\ UNCHANGED <<fifo_size, data, wr_ptr, rd_ptr, buffer_size, read_count,
                 max_buffered, average_acc, now, runnable, wakeAt, sigVars,
                 prodVars, cpd, monVars, dtorVars, written, taken, occ,
                 take_time, p_issue_reads, done_writes, bursts>>
  /\ UNCHANGED extVars

\* in->read(pd) on a non-empty fifo, then wait(100, SC_NS)
ConsumerRead ==
  /\ cur = "consumer" /\ cpc = "read"
  /\ ~read_empty(buffer_size)
  /\ last_time' = now
  /\ ReadBody
  /\ wakeAt' = [wakeAt EXCEPT !["consumer"] = now + ConsumerDelay]
  /\ cur' = "kernel"
  /\ UNCHANGED <<cpc, now, sigVars, prodVars, monVars, dtorVars, written,
                 p_issue_reads, c_issue_writes, done_writes, bursts>>
  /\ UNCHANGED extVars

\* resumption from wait(write_event) inside fifo::read: the body runs with no
\* second test of buffer_size; then wait(100, SC_NS)
ConsumerReadResume ==
  /\ cur = "consumer" /\ cpc = "wait_write"
  /\ ReadBody
  /\ cpc' = "read"
  /\ wakeAt' = [wakeAt EXCEPT !["consumer"] = now + ConsumerDelay]
  /\ cur' = "kernel"
  /\ UNCHANGED <<last_time, now, sigVars, prodVars, monVars, dtorVars, written,
                 p_issue_reads, c_issue_writes, done_writes, bursts>>
  /\ UNCHANGED extVars

(* ---- top::monitor_thread ---- *)
\* while (!prod_done_sig.read()) wait(prod_done_sig.value_changed_event());
MonitorWaitProducer ==
  /\ cur = "monitor" /\ mpc = "WAIT_PRODUCER"
  /\ IF producer_pending(sig_cur)
       THEN /\ waitEv' = [waitEv EXCEPT !["monitor"] = "value_changed"]
            /\ cur' = "kernel"
            /\ UNCHANGED mpc
       ELSE /\ mpc' = "WAIT_DRAIN"
            /\ UNCHANGED <<waitEv, cur>>
  /\ UNCHANGED <<printed, fifoVars, now, runnable, wakeAt, sigVars, prodVars,
                 consVars, dtorVars, histVars>>
  /\ UNCHANGED extVars

\* while (!fifo_inst.is_empty()) wait(100, SC_NS);  std::cout << "Monitor: ..."
MonitorWaitDrain ==
  /\ cur = "monitor" /\ mpc = "WAIT_DRAIN"
  /\ cur' = "kernel"
  /\ IF ~is_empty(buffer_size)
       THEN /\ wakeAt' = [wakeAt EXCEPT !["monitor"] = now + PollDelay]
            /\ UNCHANGED <<mpc, printed>>
       ELSE /\ mpc' = "DONE"
            /\ printed' = printed + 1
            /\ UNCHANGED wakeAt
  /\ UNCHANGED <<fifoVars, now, runnable, waitEv, sigVars, prodVars, consVars,
                 dtorVars, histVars>>
  /\ UNCHANGED extVars

(* ---- the SystemC kernel (sc_start) ---- *)
\* evaluation phase: pick any runnable process and run it
Dispatch(p) ==
  /\ cur = "kernel" /\ p \in runnable
  /\ cur' = p
  /\ runnable' = runnable \ {p}
  /\ UNCHANGED <<now, waitEv, wakeAt, fifoVars, sigVars, prodVars, consVars,
                 monVars, dtorVars, histVars>>
  /\ UNCHANGED extVars

\* update phase and delta notification: sc_signal<bool>::update() copies the
\* new value and, if it changed, triggers value_changed_event
UpdatePhase ==
  /\ cur = "kernel" /\ runnable = {} /\ update_req
  /\ update_req' = FALSE
  /\ sig_cur' = sig_new
  /\ IF sig_new # sig_cur
       THEN /\ runnable' = Woken("value_changed")
            /\ waitEv' = AfterNotify("value_changed")
       ELSE UNCHANGED <<runnable, waitEv>>
  /\ UNCHANGED <<sig_new, now, cur, wakeAt, fifoVars, prodVars, consVars,
                 monVars, dtorVars, histVars>>
  /\ UNCHANGED extVars

TimedWaits == {p \in Procs : wakeAt[p] # NoTime}
NextTime == CHOOSE t \in {wakeAt[p] : p \in TimedWaits} :
              \A q \in TimedWaits : t <= wakeAt[q]

\* timed notification: advance to the earliest pending wait(t, SC_NS)
AdvanceTime ==
  /\ cur = "kernel" /\ runnable = {} /\ ~update_req
  /\ TimedWaits # {}
  /\ now' = NextTime
  /\ runnable' = {p \in TimedWaits : wakeAt[p] = NextTime}
  /\ wakeAt' = [p \in Procs |-> IF wakeAt[p] = NextTime THEN NoTime ELSE wakeAt[p]]
  /\ UNCHANGED <<cur, waitEv, fifoVars, sigVars, prodVars, consVars, monVars,
                 dtorVars, histVars>>
  /\ UNCHANGED extVars

\* no activity left: sc_start() returns
Quiescent ==
  cur = "kernel" /\ runnable = {} /\ ~update_req /\ TimedWaits = {}

(* ---- fifo::~fifo ---- *)
\* last_time/read_count is sc_time / double: the new value of the sc_time is
\* SCAST<int64>(to_double() / d + 0.5), stored as a uint64 and printed so.
\* With d = 0 the operand is NaN (last_time zero) or infinite, and the
\* conversion is undefined.  The outcomes, as 64-bit words of four 16-bit
\* limbs, most significant first: 0x8000000000000000, printed as
\* 9223372036854775808, which is what cvttsd2si leaves for both operands, and
\* the two results of a saturating conversion, 0 and 0x7FFFFFFFFFFFFFFF.
UndefTimes ==
  {<<HalfTop, 0, 0, 0>>,
   <<0, 0, 0, 0>>,
   <<HalfTop - 1, Half - 1, Half - 1, Half - 1>>}

\* the numbers the destructor prints.  The two quotients
\* double(average_acc)/read_count and last_time/read_count are kept as
\* <<numerator, denominator>>; the divisions are made whatever read_count is,
\* and div_by_zero records that the divisor was zero.  With read_count = 0
\* the first quotient is 0.0/0 (<<0, 0>>, printed as nan) and the second has
\* no value: avg_time_word is the word the undefined conversion leaves
\* (empty where the quotient is defined).
dtor_stats(fs, acc, rc, lt) ==
  IF rc = 0
    THEN {[done |-> TRUE, fifo_size |-> fs, avg_depth |-> <<acc, rc>>,
           avg_time |-> <<lt, rc>>, avg_time_word |-> w,
           total |-> rc, total_time |-> lt,
           div_by_zero |-> TRUE] : w \in UndefTimes}
    ELSE {[done |-> TRUE, fifo_size |-> fs, avg_depth |-> <<acc, rc>>,
           avg_time |-> <<lt, rc>>, avg_time_word |-> <<>>,
           total |-> rc, total_time |-> lt,
           div_by_zero |-> FALSE]}

\* return from sc_main destroys top1 and with it fifo_inst
Destructor ==
  /\ Quiescent /\ ~destroyed
  /\ destroyed' = TRUE
  /\ stats' \in dtor_stats(fifo_size, average_acc, read_count, last_time)
  /\ UNCHANGED <<fifoVars, kernelVars, sigVars, prodVars, consVars, monVars,
                 histVars>>
  /\ UNCHANGED extVars

Next ==
  \/ ProducerDraw
  \/ ProducerWriteBlock
  \/ ProducerWrite
  \/ ProducerWriteResume
  \/ ProducerBurstEnd
  \/ ConsumerReadBlock
  \/ ConsumerRead
  \/ ConsumerReadResume
  \/ MonitorWaitProducer
  \/ MonitorWaitDrain
  \/ \E p \in Procs : Dispatch(p)
  \/ UpdatePhase
  \/ AdvanceTime
  \/ Destructor

Spec == Init /\ [][Next]_vars

\* sc_start() keeps running the kernel's phases for as long as a thread is
\* runnable, an update is requested or a timed wait is pending
FairSpec == Spec /\ WF_vars(Next)

(* ---- the destructor applied to a fifo on which any number of reads, ---- *)
(* ---- none included, have completed                                  ---- *)
\* ~fifo frees the array without looking at a slot: what the slots hold is
\* left open
InitDtor ==
  /\ fifo_size \in 1..MaxCap
  /\ data = NoData
  /\ wr_ptr = 0 /\ rd_ptr = 0 /\ buffer_size = 0
  /\ read_count \in 0..MaxReads
  /\ average_acc \in read_count..(read_count * fifo_size)
  /\ max_buffered \in 0..fifo_size
  /\ read_count * max_buffered >= average_acc
  /\ (read_count > 0) => (max_buffered + read_count - 1 <= average_acc)
  /\ (read_count = 0) => (max_buffered = 0)
  /\ \E k \in 0..MaxTicks : last_time = k * ConsumerDelay
  /\ now = last_time
  /\ runnable = {}
  /\ cur = "kernel"
  /\ waitEv = [p \in Procs |-> NoEvent]
  /\ wakeAt = [p \in Procs |-> NoTime]
  /\ sig_cur = FALSE /\ sig_new = FALSE /\ update_req = FALSE
  /\ ppc = "draw" /\ i = 0 /\ pd = 0 /\ total_loop = TotalLoop
  /\ cpc = "read" /\ cpd = 0
  /\ mpc = "WAIT_PRODUCER" /\ printed = 0
  /\ destroyed = FALSE /\ stats = NoStats
  /\ written = <<>> /\ taken = <<>> /\ occ = <<>>
  /\ take_time = last_time /\ p_issue_reads = 0 /\ c_issue_writes = 0
  /\ done_writes = 0
  /\ bursts = <<>>
  /\ main_pc = "started" /\ has_arg = TRUE /\ arg_val = fifo_size /\ size = fifo_size
  /\ w2pc = "absent" /\ pd2 = 0

NextDtor == Destructor

SpecDtor == InitDtor /\ [][NextDtor]_vars

(* ---- the fifo shared by two callers: besides producer::main, a second ---- *)
(* ---- thread bound to the same write_if calls write Writer2Writes     ---- *)
(* ---- times, with no wait of its own, and ends; before any of its     ---- *)
(* ---- writes and before it ends it may call reset                     ---- *)
\* out->write(++pd2) on a full fifo: suspend on read_event
Writer2WriteBlock ==
  /\ cur = "writer2" /\ w2pc = "call" /\ pd2 < Writer2Writes
  /\ write_full(buffer_size, fifo_size)
  /\ pd2' = pd2 + 1
  /\ w2pc' = "wait_read"
  /\ waitEv' = [waitEv EXCEPT !["writer2"] = "read_event"]
  /\ cur' = "kernel"
  /\ UNCHANGED <<fifoVars, now, runnable, wakeAt, sigVars, prodVars, consVars,
                 monVars, dtorVars, histVars, mainVars>>

\* out->write(++pd2) on a fifo with room
Writer2Write ==
  /\ cur = "writer2" /\ w2pc = "call" /\ pd2 < Writer2Writes
  /\ ~write_full(buffer_size, fifo_size)
  /\ pd2' = pd2 + 1
  /\ WriteBody(pd2 + 1)
  /\ UNCHANGED <<w2pc, now, cur, wakeAt, sigVars, prodVars, consVars, monVars,
                 dtorVars, taken, occ, take_time, p_issue_reads, c_issue_writes,
                 done_writes, bursts, mainVars>>

\* resumption from wait(read_event) inside fifo::write
Writer2WriteResume ==
  /\ cur = "writer2" /\ w2pc = "wait_read"
  /\ WriteBody(pd2)
  /\ w2pc' = "call"
  /\ UNCHANGED <<pd2, now, cur, wakeAt, sigVars, prodVars, consVars, monVars,
                 dtorVars, taken, occ, take_time, p_issue_reads, c_issue_writes,
                 done_writes, bursts, mainVars>>

\* the second writer has made all its writes and returns
Writer2End ==
  /\ cur = "writer2" /\ w2pc = "call" /\ pd2 >= Writer2Writes
  /\ w2pc' = "done"
  /\ cur' = "kernel"
  /\ UNCHANGED <<pd2, fifoVars, now, runnable, waitEv, wakeAt, sigVars, prodVars,
                 consVars, monVars, dtorVars, histVars, mainVars>>

InitShared ==
  /\ fifo_size \in 1..MaxCap
  /\ data = NoData
  /\ wr_ptr = 0 /\ rd_ptr = 0 /\ buffer_size = 0
  /\ read_count = 0 /\ max_buffered = 0 /\ average_acc = 0
  /\ last_time = 0
  /\ now = 0
  /\ runnable = Procs \cup {"writer2"}
  /\ cur = "kernel"
  /\ waitEv = [p \in Procs \cup {"writer2"} |-> NoEvent]
  /\ wakeAt = [p \in Procs |-> NoTime]
  /\ sig_cur = FALSE /\ sig_new = FALSE /\ update_req = FALSE
  /\ ppc = "draw" /\ i = 0 /\ pd = 0 /\ total_loop = TotalLoop
  /\ cpc = "read" /\ cpd = 0
  /\ mpc = "WAIT_PRODUCER" /\ printed = 0
  /\ destroyed = FALSE /\ stats = NoStats
  /\ written = <<>> /\ taken = <<>> /\ occ = <<>>
  /\ take_time = 0 /\ p_issue_reads = 0 /\ c_issue_writes = 0
  /\ done_writes = 0
  /\ bursts = <<>>
  /\ main_pc = "started" /\ has_arg = TRUE /\ arg_val = fifo_size /\ size = fifo_size
  /\ w2pc = "call" /\ pd2 = 0

\* out->reset(): fifo::reset clears the count and both pointers and nothing
\* else; the slots, the statistics and the two events are left as they are,
\* and no thread is woken
Writer2Reset ==
  /\ cur = "writer2" /\ w2pc = "call"
  /\ buffer_size' = 0
  /\ wr_ptr' = 0
  /\ rd_ptr' = 0
  /\ UNCHANGED <<fifo_size, data, read_count, max_buffered, average_acc, last_time>>
  /\ UNCHANGED <<kernelVars, sigVars, prodVars, consVars, monVars, dtorVars,
                 histVars, extVars>>

\* A reset made while a woken reader has not yet resumed lets that reader take
\* from an empty fifo: buffer_size-- leaves 4294967295 and the consumer goes
\* on reading, 2^32 times over.  ReadCap bounds the reads followed: a run
\* that reaches ReadCap reads is cut there.  No run without a reset makes
\* that many (at most TotalLoop - 1 + BurstLen(RandMax) + Writer2Writes).
NextShared ==
  \/ ProducerDraw
  \/ ProducerWriteBlock
  \/ ProducerWrite
  \/ ProducerWriteResume
  \/ ProducerBurstEnd
  \/ ConsumerReadBlock
  \/ (read_count < ReadCap /\ ConsumerRead)
  \/ (read_count < ReadCap /\ ConsumerReadResume)
  \/ MonitorWaitProducer
  \/ MonitorWaitDrain
  \/ \E p \in Procs \cup {"writer2"} : Dispatch(p)
  \/ UpdatePhase
  \/ AdvanceTime
  \/ Destructor
  \/ Writer2WriteBlock
  \/ Writer2Write
  \/ Writer2WriteResume
  \/ Writer2End
  \/ Writer2Reset

SpecShared == InitShared /\ [][NextShared]_vars

(* ---- sc_main, from entry to the "fifo size: " line ---- *)
\* uint32_t size = 10; if (argc > 1) size = atoi(argv[1]);
\* if (size < 1) size = 1; if (size > 100000) size = 100000;
clamp_size(given, v) ==
  LET s0 == IF given THEN ToU32(v) ELSE ToU32(DefaultSize)
      s1 == IF U32Lt(s0, ToU32(MinSize)) THEN ToU32(MinSize) ELSE s0
      s2 == IF U32Lt(ToU32(MaxSize), s1) THEN ToU32(MaxSize) ELSE s1
  IN FromU32(s2)

\* the values atoi(argv[1]) is drawn from
ArgValues ==
  ((0 - MaxArg)..MaxArg) \cup
  {(0 - IntMax) - 1, 0 - IntMax, 0 - MaxSize - 1, 0 - MaxSize,
   MaxSize - 1, MaxSize, MaxSize + 1, IntMax}

\* before sc_main runs: nothing is constructed yet
InitMain ==
  /\ main_pc = "entry"
  /\ has_arg \in BOOLEAN
  /\ IF has_arg THEN arg_val \in ArgValues ELSE arg_val = 0
  /\ size = 0
  /\ fifo_size = 0 /\ data = <<>>
  /\ wr_ptr = 0 /\ rd_ptr = 0 /\ buffer_size = 0
  /\ read_count = 0 /\ max_buffered = 0 /\ average_acc = 0
  /\ last_time = 0
  /\ now = 0
  /\ runnable = {}
  /\ cur = "kernel"
  /\ waitEv = [p \in Procs |-> NoEvent]
  /\ wakeAt = [p \in Procs |-> NoTime]
  /\ sig_cur = FALSE /\ sig_new = FALSE /\ update_req = FALSE
  /\ ppc = "draw" /\ i = 0 /\ pd = 0 /\ total_loop = TotalLoop
  /\ cpc = "read" /\ cpd = 0
  /\ mpc = "WAIT_PRODUCER" /\ printed = 0
  /\ destroyed = FALSE /\ stats = NoStats
  /\ written = <<>> /\ taken = <<>> /\ occ = <<>>
  /\ take_time = 0 /\ p_issue_reads = 0 /\ c_issue_writes = 0
  /\ done_writes = 0
  /\ bursts = <<>>
  /\ w2pc = "absent" /\ pd2 = 0

ScMainClamp ==
  /\ main_pc = "entry"
  /\ size' = clamp_size(has_arg, arg_val)
  /\ main_pc' = "clamped"
  /\ UNCHANGED <<has_arg, arg_val, w2Vars, fifoVars, kernelVars, sigVars,
                 prodVars, consVars, monVars, dtorVars, histVars>>

NextMain == ScMainClamp

SpecMain == InitMain /\ [][NextMain]_vars

TypeOK ==
  /\ fifo_size \in 0..MaxCap
  /\ cur \in DOMAIN waitEv \cup {"kernel"}
  /\ runnable \subseteq DOMAIN waitEv
  /\ ppc \in {"draw", "loop", "wait_read", "done"}
  /\ cpc \in {"read", "wait_write"}
  /\ mpc \in {"WAIT_PRODUCER", "WAIT_DRAIN", "DONE"}

(***************************************************************************)
(* Properties                                                              *)
(***************************************************************************)

\* C1: in every reachable state, after every completed write and read and at
\* every suspension point, 0 <= buffer_size <= fifo_size.
C1_CountInRange == 0 <= buffer_size /\ buffer_size <= fifo_size

\* the fifo is full with the producer suspended in write, after reads and
\* writes have completed
C1_Witness ==
  /\ buffer_size = fifo_size /\ ppc = "wait_read" /\ cur = "kernel"
  /\ read_count > 0 /\ Len(written) > fifo_size

\* C2: the values returned by read are at all times a prefix, in order, of
\* the values passed to write, and the values written and not yet read are
\* exactly the buffer_size elements still stored: nothing is lost,
\* duplicated or reordered.
C2_StrictFifo ==
  /\ IsPrefix(taken, written)
  /\ Len(written) - Len(taken) = buffer_size

\* Scenario A: capacity 1, the first three takes return 1, 2, 3
C2_Witness ==
  /\ fifo_size = 1 /\ Len(taken) >= 3
  /\ SubSeq(taken, 1, 3) = <<1, 2, 3>>

\* C3: a write issued on a full fifo stores nothing and suspends, and stays
\* suspended, storing nothing and not raising the count, for as long as no
\* read has completed since it was issued; a read issued on an empty fifo
\* returns nothing and suspends, and stays suspended for as long as no write
\* has completed since it was issued.
C3_Blocking ==
  [][ /\ (cur = "producer" /\ ppc = "loop" /\ i - 1 >= 0 /\ buffer_size = fifo_size)
           => (written' = written /\ buffer_size' = buffer_size /\ ppc' = "wait_read")
      /\ (ppc = "wait_read" /\ read_count = p_issue_reads /\ read_count' = read_count)
           => (written' = written /\ buffer_size' = buffer_size /\ ppc' = "wait_read")
      /\ (ppc = "wait_read" /\ written' # written) => read_count > p_issue_reads
      /\ (cur = "consumer" /\ cpc = "read" /\ buffer_size = 0)
           => (taken' = taken /\ buffer_size' = buffer_size /\ cpc' = "wait_write")
      /\ (cpc = "wait_write" /\ Len(written) = c_issue_writes /\ written' = written)
           => (taken' = taken /\ buffer_size' = buffer_size /\ cpc' = "wait_write")
      /\ (cpc = "wait_write" /\ taken' # taken) => Len(written) > c_issue_writes
    ]_vars

\* a write that was suspended on a full fifo has stored its value after a
\* read, and a read that was suspended on an empty fifo has returned after a
\* write
C3_Witness ==
  /\ p_issue_reads > 0 /\ read_count > p_issue_reads /\ ppc # "wait_read"
  /\ Len(written) > p_issue_reads + fifo_size
  /\ c_issue_writes > 0 /\ Len(taken) > c_issue_writes

\* C4: the monitor leaves WAIT_PRODUCER only when the completion flag reads
\* true, leaves WAIT_DRAIN only when the fifo is empty, and reaches DONE only
\* from WAIT_DRAIN in a state where the fifo is empty and the flag is true.
C4_DrainLaw ==
  [][ /\ (mpc = "WAIT_PRODUCER" /\ mpc' # "WAIT_PRODUCER") => sig_cur
      /\ (mpc = "WAIT_DRAIN" /\ mpc' # "WAIT_DRAIN") => buffer_size = 0
      /\ (mpc # "DONE" /\ mpc' = "DONE")
           => (mpc = "WAIT_DRAIN" /\ buffer_size' = 0 /\ sig_cur')
    ]_vars

\* the monitor has seen the flag, found the fifo empty and printed its line,
\* in a run of more than one burst
C4_Witness ==
  /\ mpc = "DONE" /\ printed = 1 /\ sig_cur /\ read_count > 0
  /\ now > ProducerDelay

\* C5 as stated: once the producer is done and the fifo has drained,
\* read_count equals the configured quota exactly.
C5_ExactQuota ==
  (ppc = "done" /\ buffer_size = 0) => read_count = TotalLoop

\* C5 amended: once the producer is done and the fifo has drained, read_count
\* equals the number of writes the producer made, which is at least the quota
\* and at most the quota minus one plus the longest burst.
C5_Conservation ==
  (ppc = "done" /\ buffer_size = 0)
    => /\ read_count = Len(written)
       /\ read_count >= TotalLoop
       /\ read_count <= TotalLoop - 1 + BurstLen(RandMax)

\* drained after the producer overshot its quota
C5_Witness ==
  ppc = "done" /\ buffer_size = 0 /\ read_count > TotalLoop

\* C6: when the monitor's line has been printed, every write has been read
\* (completed reads = completed writes), and no write happens afterwards.
C6_AllRead ==
  /\ [](mpc = "DONE" => (read_count = Len(written) /\ Len(taken) = Len(written)))
  /\ [][mpc = "DONE" => written' = written]_vars

\* the line is printed after the whole quota went through the fifo
C6_Witness ==
  mpc = "DONE" /\ printed = 1 /\ Len(written) >= TotalLoop /\ read_count > 0

\* C7: with occ the occupancies sampled immediately before each removal,
\* read_count = Len(occ), average_acc is their sum, max_buffered their
\* maximum, and every sample is in 1..fifo_size.
C7_Statistics ==
  /\ read_count = Len(occ)
  /\ average_acc = SeqSum(occ)
  /\ max_buffered = SeqMax(occ)
  /\ \A k \in 1..Len(occ) : 1 <= occ[k] /\ occ[k] <= fifo_size

\* several reads with different occupancies, the last below the maximum
C7_Witness ==
  /\ Len(occ) >= 3
  /\ occ[Len(occ)] < max_buffered
  /\ average_acc > read_count

\* C8: last_time always equals the time at which the most recent completed
\* take removed its element (zero before the first take).
C8_LastTimeIsTakeTime == last_time = take_time

\* C9: the completion flag goes false -> true exactly once; it is written
\* only when total_loop <= 0, never back to false; the producer terminates in
\* the step that writes it and never writes to the fifo afterwards.
C9_OneShotFlag ==
  /\ [][ /\ (sig_new' # sig_new)
              => (~sig_new /\ sig_new' /\ total_loop <= 0 /\ ppc # "done" /\ ppc' = "done")
         /\ (done_writes' # done_writes)
              => (sig_new' /\ total_loop <= 0 /\ ppc' = "done" /\ done_writes' = 1)
         /\ (sig_cur' # sig_cur) => (~sig_cur /\ sig_cur')
         /\ sig_new => (written' = written /\ ppc' = "done")
       ]_vars
  /\ [](ppc = "done" <=> done_writes = 1)
  /\ [](sig_cur => sig_new)

\* the flag has been written once and has become visible
C9_Witness ==
  sig_cur /\ sig_new /\ done_writes = 1 /\ ppc = "done" /\ total_loop <= 0

\* C10: the destructor, run when no read has ever completed, divides by no
\* zero divisor.
C10_NoDivByZero ==
  (destroyed /\ read_count = 0) => ~stats.div_by_zero

\* C11: every burst length the producer draws lies in 1..19, whatever rand()
\* returns in 0..RAND_MAX.
C11_BurstRange ==
  \A k \in 1..Len(bursts) : 1 <= bursts[k] /\ bursts[k] <= BurstMul

\* C12: the effective capacity is 10 with no argument, and otherwise the
\* argument v clamped to 1..100000: 1 if v < 1, 100000 if v > 100000, else v.
C12_Clamp ==
  (main_pc = "clamped")
    => size = IF ~has_arg THEN DefaultSize
              ELSE IF arg_val < MinSize THEN MinSize
              ELSE IF arg_val > MaxSize THEN MaxSize
              ELSE arg_val

\* C13: a write resumed from its wait re-checks fullness and, if the fifo is
\* full at that moment, suspends again without storing; a read resumed from
\* its wait re-checks emptiness and, if the fifo is empty, suspends again
\* without returning.
C13_Recheck ==
  [][ /\ (cur = "producer" /\ ppc = "wait_read" /\ buffer_size = fifo_size)
           => (written' = written /\ ppc' = "wait_read")
      /\ (cur = "writer2" /\ w2pc = "wait_read" /\ buffer_size = fifo_size)
           => (written' = written /\ w2pc' = "wait_read")
      /\ (cur = "consumer" /\ cpc = "wait_write" /\ buffer_size = 0)
           => (taken' = taken /\ cpc' = "wait_write")
    ]_vars

\* C14: the writes of each burst carry 1, 2, ..., L in that order (the
\* counter restarts at 1 with every burst, and a burst of drawn length L makes
\* exactly L writes), and total_loop goes down by one per write.
C14_BurstValues ==
  /\ IsPrefix(written, Expand(bursts))
  /\ total_loop = TotalLoop - Len(written)
  /\ (bursts # <<>>) =>
        /\ Len(written) = SeqSum(Front(bursts))
                            + (IF ppc = "wait_read" THEN pd - 1 ELSE pd)
        /\ (ppc \in {"draw", "done"}) => pd = bursts[Len(bursts)]

\* a second burst has restarted the values at 1
C14_Witness ==
  /\ Len(bursts) = 2 /\ Len(written) >= 3
  /\ SubSeq(written, 1, 3) = <<1, 1, 2>>
  /\ total_loop = TotalLoop - Len(written)

\* C15: in every state another thread can observe, rd_ptr and wr_ptr are
\* in 0..fifo_size-1 and wr_ptr = (rd_ptr + buffer_size) mod fifo_size.
C15_RingWellFormed ==
  /\ 0 <= rd_ptr /\ rd_ptr < fifo_size
  /\ 0 <= wr_ptr /\ wr_ptr < fifo_size
  /\ wr_ptr = (rd_ptr + buffer_size) % fifo_size

\* at a suspension point, the stored elements wrap around the end of data
C15_Witness ==
  /\ cur = "kernel" /\ wr_ptr < rd_ptr /\ buffer_size >= 2
  /\ read_count > fifo_size

\* C16: a producer suspended on read_event implies a full fifo, a consumer
\* suspended on write_event implies an empty fifo, the two are never
\* suspended on these events together, and a thread inside a wait is either
\* still waiting for its event or has been made runnable by it (no wakeup is
\* lost).
C16_NoLostWakeup ==
  /\ (waitEv["producer"] = "read_event") => buffer_size = fifo_size
  /\ (waitEv["consumer"] = "write_event") => buffer_size = 0
  /\ ~(waitEv["producer"] = "read_event" /\ waitEv["consumer"] = "write_event")
  /\ (ppc = "wait_read")
       => (waitEv["producer"] = "read_event" \/ "producer" \in runnable
           \/ cur = "producer")
  /\ (cpc = "wait_write")
       => (waitEv["consumer"] = "write_event" \/ "consumer" \in runnable
           \/ cur = "consumer")

\* the producer is suspended on the full fifo in a run in which the consumer
\* was suspended on the empty fifo before and has been woken
C16_Witness ==
  /\ waitEv["producer"] = "read_event" /\ buffer_size = fifo_size
  /\ c_issue_writes > 0 /\ Len(taken) > c_issue_writes

\* C17: under fair scheduling the producer eventually reaches done and the
\* monitor eventually reaches DONE; its line is printed exactly once (never
\* more than once, and from some point on once for ever).
C17_Completes ==
  /\ <>(ppc = "done")
  /\ <>(mpc = "DONE")
  /\ [](printed <= 1)
  /\ <>[](printed = 1)

\* both have finished and the line has been printed once
C17_Witness ==
  ppc = "done" /\ mpc = "DONE" /\ printed = 1 /\ Len(bursts) >= 2

\* C18: once the completion flag has been written true, buffer_size never
\* increases, so an empty fifo stays empty; in particular buffer_size never
\* increases once the monitor has left WAIT_PRODUCER.
C18_NoRefill ==
  [][ /\ sig_new => buffer_size' <= buffer_size
      /\ (sig_new /\ buffer_size = 0) => buffer_size' = 0
      /\ (mpc # "WAIT_PRODUCER") => buffer_size' <= buffer_size
    ]_vars

\* the monitor is polling in WAIT_DRAIN while elements written before the
\* flag are still being read
C18_Witness ==
  /\ sig_cur /\ mpc = "WAIT_DRAIN" /\ wakeAt["monitor"] # NoTime
  /\ buffer_size > 0 /\ read_count > 0

\* C19: when the producer is done, the number of writes it made is at least
\* the quota and less than the quota plus the maximum burst length 19, and
\* total_loop is in (-19, 0].
C19_QuotaOvershoot ==
  (ppc = "done")
    => /\ Len(written) >= TotalLoop
       /\ Len(written) < TotalLoop + BurstMul
       /\ total_loop <= 0
       /\ total_loop > 0 - BurstMul

\* C20: every run reaches a state with no scheduled activity left; in any
\* such state the producer is done, the monitor is DONE, the fifo is empty
\* and the consumer is suspended in read on write_event; from then on
\* nothing is scheduled again and the consumer's read never returns.
C20_Quiescence ==
  /\ <>Quiescent
  /\ [](Quiescent => /\ ppc = "done" /\ mpc = "DONE" /\ buffer_size = 0
                      /\ cpc = "wait_write"
                      /\ waitEv["consumer"] = "write_event")
  /\ [][Quiescent => (Quiescent' /\ taken' = taken /\ cpc' = "wait_write")]_vars

\* sc_start() has returned and the fifo has been destroyed with the consumer
\* still suspended in read
C20_Witness ==
  /\ Quiescent /\ destroyed /\ ppc = "done" /\ mpc = "DONE"
  /\ waitEv["consumer"] = "write_event" /\ read_count >= TotalLoop

====
